---- MODULE Spec2Model ----
(***************************************************************************)
(* Layout-test generator of binding-helpers (src/binding-helpers/src/gen.rs)*)
(* as a state machine.                                                      *)
(*                                                                          *)
(* A LayoutTestGenerator holds three collections behind RefCells:           *)
(*   fields    : HashMap<String, HashSet<String>>                           *)
(*   blocklist : Vec<Regex>                                                 *)
(*   headers   : HashSet<String>                                            *)
(* The bindgen parse callbacks (LayoutTestCallbacks) fill them, the caller  *)
(* adds exclusion patterns with blocklist_type, and generate_layout_tests   *)
(* writes the artifact.                                                     *)
(*                                                                          *)
(* A HashMap / HashSet is modelled as the sequence of its elements in       *)
(* iteration order.  The order of an unmodified collection is stable; where *)
(* a new element lands is decided by the per-instance random hash seed, so  *)
(* an insertion of a new key puts it at any position.                       *)
(*                                                                          *)
(* Strings that are matched by regular expressions (type names, patterns)   *)
(* are sequences of one-character strings.                                  *)
(***************************************************************************)
EXTENDS Integers, Sequences, FiniteSets, TLC

(***************************************************************************)
(* Bounds and input sets                                                    *)
(***************************************************************************)
MaxBlocklist == 2
MaxHandles == 4

Foo == <<"F", "o", "o">>
FooBar == <<"F", "o", "o", "B", "a", "r">>
PatFoDotStar == <<"F", "o", ".", "*">>
PatUnclosed == <<"F", "o", "(">>

TypeNames == {Foo, FooBar}
FieldNames == {"x", "y"}
HeaderPaths == {"3ds.h", "3ds/types.h"}
MainHeaders == {"3ds.h"}
Patterns == {Foo, PatFoDotStar, PatUnclosed}
Gens == {1, 2}
HandleIds == 1..MaxHandles
MountCodes == {-1, 0, 1}

TypeKind == {"Struct", "Enum", "Union"}
DeriveTrait == {"Copy", "Debug"}

\* The output path: absent, left over from an earlier build, or created by
\* File::create and then holding the include lines and the body written
\* ("partial" once a write to it has failed).
NoFile == [state |-> "absent", lines |-> <<>>, body |-> <<>>]
StaleFile == [state |-> "stale", lines |-> <<>>, body |-> <<>>]
EmptyFile == [state |-> "created", lines |-> <<>>, body |-> <<>>]

\* Program state: the three collections of each generator, its output file,
\* whether generate_layout_tests holds the File, where it stands and what its
\* last call returned; whether the build has panicked; the rustfmt feature.
\* History of the run, read by the properties only: the names that came with
\* a union event (unions), with a struct/enum or field event (declared), the
\* names a pattern given to blocklist_type by the caller fully matched when
\* they were already recorded (late), and the artifacts of the last two calls
\* of generate_layout_tests that returned Ok, oldest first (written).
\* answer is the value returned by the step just taken when that step was a
\* call of blocklisted_type_implements_trait ("unasked" after any other step);
\* passed is the set of header paths given to header_file so far (history).
VARIABLES headers, fields, blocklist, file, handle, pc, result, panicked,
          rustfmt, written, unions, declared, late, answer, passed

\* ctru-rs RomFS: the counter ROMFS_ACTIVE, the RomFS values alive, whether
\* the native mount is in place, and what the last RomFS::init returned and
\* the result code romfsMountSelf gave it (0 when it was not called).
VARIABLES romfs_active, romfs_alive, romfs_mounted, romfs_ret, romfs_code

romfs_vars == <<romfs_active, romfs_alive, romfs_mounted, romfs_ret, romfs_code>>

vars == <<headers, fields, blocklist, file, handle, pc, result, panicked,
          rustfmt, written, unions, declared, late, answer, passed,
          romfs_active, romfs_alive, romfs_mounted, romfs_ret, romfs_code>>

(***************************************************************************)
(* Collections in iteration order                                           *)
(***************************************************************************)
InsertAt(s, k, e) == SubSeq(s, 1, k - 1) \o <<e>> \o SubSeq(s, k, Len(s))

Elems(s) == {s[i] : i \in DOMAIN s}

Keys(m) == {m[i].name : i \in DOMAIN m}

IndexOf(m, name) == CHOOSE i \in DOMAIN m : m[i].name = name

Get(m, name) == IF name \in Keys(m) THEN m[IndexOf(m, name)].set ELSE <<>>

(***************************************************************************)
(* regex::Regex, for the syntax subset: literal characters, `.`, and a      *)
(* postfix `*`; a `(` that is never closed is a syntax error, as is a       *)
(* leading `*`.                                                             *)
(***************************************************************************)
RECURSIVE ParseFrom(_, _)
ParseFrom(p, i) ==
    IF i > Len(p) THEN <<>>
    ELSE LET star == i < Len(p) /\ p[i + 1] = "*"
         IN  <<[ch |-> p[i], any |-> p[i] = ".", star |-> star]>>
             \o ParseFrom(p, IF star THEN i + 2 ELSE i + 1)

Opens(p) == Cardinality({i \in DOMAIN p : p[i] = "("})
Closes(p) == Cardinality({i \in DOMAIN p : p[i] = ")"})

RegexNew(p) ==
    IF Opens(p) # Closes(p) \/ (Len(p) > 0 /\ p[1] = "*")
    THEN [ok |-> FALSE, prog |-> <<>>]
    ELSE [ok |-> TRUE, prog |-> ParseFrom(p, 1)]

AtomMatches(a, c) == a.any \/ a.ch = c

\* The positions j' at which a match of prog[i..] that starts at s[j] can end.
RECURSIVE MatchEnds(_, _, _, _)
MatchEnds(prog, i, s, j) ==
    IF i > Len(prog) THEN {j}
    ELSE IF prog[i].star
         THEN MatchEnds(prog, i + 1, s, j)
              \cup (IF j <= Len(s) /\ AtomMatches(prog[i], s[j])
                    THEN MatchEnds(prog, i, s, j + 1) ELSE {})
         ELSE IF j <= Len(s) /\ AtomMatches(prog[i], s[j])
              THEN MatchEnds(prog, i + 1, s, j + 1) ELSE {}

\* A match that must cover the whole of s (what ^(?:re)$ would accept).
full_match(prog, s) == (Len(s) + 1) \in MatchEnds(prog, 1, s, 1)

\* Regex::is_match: true when the expression matches anywhere in s.
is_match(prog, s) == \E j \in 1..(Len(s) + 1) : MatchEnds(prog, 1, s, j) # {}

(***************************************************************************)
(* State after LayoutTestCallbacks::new(): empty collections.  rustfmt is   *)
(* the cargo feature of the build; the output path may hold the artifact of *)
(* an earlier build.                                                        *)
(***************************************************************************)
Init ==
    /\ headers = [g \in Gens |-> <<>>]
    /\ fields = [g \in Gens |-> <<>>]
    /\ blocklist = [g \in Gens |-> <<>>]
    /\ \E f \in {NoFile, StaleFile} : file = [g \in Gens |-> f]
    /\ handle = [g \in Gens |-> FALSE]
    /\ pc = [g \in Gens |-> "idle"]
    /\ result = [g \in Gens |-> "none"]
    /\ written = [g \in Gens |-> <<>>]
    /\ unions = [g \in Gens |-> {}]
    /\ declared = [g \in Gens |-> {}]
    /\ late = [g \in Gens |-> {}]
    /\ panicked = FALSE
    /\ rustfmt \in BOOLEAN
    /\ answer = [g \in Gens |-> "unasked"]
    /\ passed = [g \in Gens |-> {}]
    /\ romfs_active = 0
    /\ romfs_alive = {}
    /\ romfs_mounted = FALSE
    /\ romfs_ret = "none"
    /\ romfs_code = 0

\* The parse pass and the caller's configuration come before the first call
\* of generate_layout_tests (build.rs: Builder::generate, then blocklist_type,
\* then generate_layout_tests); a panic aborts the build.
Parsing(g) == ~panicked /\ pc[g] = "idle" /\ result[g] = "none"

\* Mutant: the pattern is pushed without checking that it compiled.
blocklist_type_Unchecked(g, pattern) ==
    /\ Len(blocklist[g]) < MaxBlocklist
    /\ blocklist' = [blocklist EXCEPT ![g] = Append(@, ParseFrom(pattern, 1))]
    /\ panicked' = panicked

\* LayoutTestGenerator::blocklist_type: push Regex::new(pattern).unwrap().
blocklist_type(g, pattern) ==
    LET re == RegexNew(pattern)
    IN  IF re.ok
        THEN /\ Len(blocklist[g]) < MaxBlocklist
             /\ blocklist' = [blocklist EXCEPT ![g] = Append(@, re.prog)]
             /\ panicked' = panicked
        ELSE /\ panicked' = TRUE
             /\ blocklist' = blocklist

\* ParseCallbacks::header_file: headers.insert(filename).
header_file(g, filename) ==
    /\ Parsing(g)
    /\ IF filename \in Elems(headers[g])
       THEN headers' = headers
       ELSE \E k \in 1..(Len(headers[g]) + 1) :
                headers' = [headers EXCEPT ![g] = InsertAt(@, k, filename)]
    /\ passed' = [passed EXCEPT ![g] = @ \cup {filename}]
    /\ UNCHANGED <<fields, blocklist, file, handle, pc, result, written,
                   unions, declared, late, panicked, rustfmt>>
    /\ answer' = [answer EXCEPT ![g] = "unasked"]
    /\ UNCHANGED romfs_vars

\* HashMap::insert(name, HashSet::new()): the value of a present key is
\* replaced, its slot kept; a new key lands anywhere.
MapInsertEmpty(m, name, k) ==
    IF name \in Keys(m)
    THEN [m EXCEPT ![IndexOf(m, name)] = [name |-> name, set |-> <<>>]]
    ELSE InsertAt(m, k, [name |-> name, set |-> <<>>])

\* ParseCallbacks::add_derives.
add_derives(g, name, kind) ==
    /\ Parsing(g)
    /\ IF kind \in {"Struct", "Enum"}
       THEN /\ \E k \in 1..(Len(fields[g]) + 1) :
                  fields' = [fields EXCEPT ![g] = MapInsertEmpty(@, name, k)]
            /\ declared' = [declared EXCEPT ![g] = @ \cup {name}]
            /\ UNCHANGED <<blocklist, panicked, unions>>
       ELSE /\ blocklist_type(g, name)
            /\ unions' = [unions EXCEPT ![g] = @ \cup {name}]
            /\ UNCHANGED <<fields, declared>>
    /\ UNCHANGED <<headers, file, handle, pc, result, written, late, rustfmt>>
    /\ answer' = [answer EXCEPT ![g] = "unasked"]
    /\ UNCHANGED <<passed, romfs_vars>>

\* ParseCallbacks::blocklisted_type_implements_trait.
\* Mutant: the query answers and registers nothing.
blocklisted_type_implements_trait_Answering(g, name, derive_trait) ==
    /\ Parsing(g)
    /\ answer' = [answer EXCEPT ![g] = "Yes"]
    /\ UNCHANGED <<headers, fields, blocklist, panicked, file, handle, pc,
                   result, written, unions, declared, late, rustfmt>>
    /\ UNCHANGED <<passed, romfs_vars>>

blocklisted_type_implements_trait(g, name, derive_trait) ==
    /\ Parsing(g)
    /\ blocklist_type(g, name)
    /\ answer' = [answer EXCEPT ![g] = "None"]
    /\ UNCHANGED <<headers, fields, file, handle, pc, result, written,
                   unions, declared, late, rustfmt>>
    /\ UNCHANGED <<passed, romfs_vars>>

\* HashSet::insert(field): no change when present, anywhere when new.
SetInsert(s, e, k) == IF e \in Elems(s) THEN s ELSE InsertAt(s, k, e)

\* fields.entry(type_name).or_default().insert(field_name)
MapEntryInsert(m, name, field, k, j) ==
    LET m1 == IF name \in Keys(m) THEN m
              ELSE InsertAt(m, k, [name |-> name, set |-> <<>>])
        i == IndexOf(m1, name)
    IN  [m1 EXCEPT ![i].set = SetInsert(@, field, j)]

\* ParseCallbacks::field_visibility.
field_visibility(g, type_name, field_name) ==
    /\ Parsing(g)
    /\ \E k \in 1..(Len(fields[g]) + 1) :
         \E j \in 1..(Len(Get(fields[g], type_name)) + 1) :
            fields' = [fields EXCEPT
                          ![g] = MapEntryInsert(@, type_name, field_name, k, j)]
    /\ declared' = [declared EXCEPT ![g] = @ \cup {type_name}]
    /\ UNCHANGED <<headers, blocklist, file, handle, pc, result, written,
                   unions, late, panicked, rustfmt>>
    /\ answer' = [answer EXCEPT ![g] = "unasked"]
    /\ UNCHANGED <<passed, romfs_vars>>

\* main (ctru-sys/build.rs): test_generator.blocklist_type("...").
main_blocklist_type(g, pattern) ==
    /\ Parsing(g)
    /\ blocklist_type(g, pattern)
    /\ late' = [late EXCEPT ![g] = @ \cup
                  {n \in Keys(fields[g]) : ~panicked' /\ full_match(RegexNew(pattern).prog, n)}]
    /\ UNCHANGED <<headers, fields, file, handle, pc, result, written,
                   unions, declared, rustfmt>>
    /\ answer' = [answer EXCEPT ![g] = "unasked"]
    /\ UNCHANGED <<passed, romfs_vars>>

(***************************************************************************)
(* TestProgramBuilder: build_tests and its helpers.  A token stream is the  *)
(* sequence of its tokens; an identifier made of a type name is that name's *)
(* characters.                                                              *)
(***************************************************************************)
build_preamble == <<"use cpp::cpp;", "macro_rules! size_of", "macro_rules! align_of",
                    "fn size_of_ret", "fn align_of_ret">>

\* assert_eq!(#rust_lhs, cpp!(unsafe [] -> usize as "size_t" { return #cpp_rhs; }), ...)
build_assert_eq(rust_lhs, cpp_rhs) == [rust |-> rust_lhs, cpp |-> cpp_rhs]

\* Mutant: the offset assertion of a field is left out.
FieldAsserts_NoOffset(name, field) ==
    << build_assert_eq(<<"size_of!">> \o name \o <<"::", field>>,
                       <<"sizeof">> \o name \o <<"::", field>>),
       build_assert_eq(<<"align_of!">> \o name \o <<"::", field>>,
                       <<"alignof">> \o name \o <<"::", field>>) >>

\* The three assertions pushed for one field by the loop of build_struct_test.
FieldAsserts(name, field) ==
    << build_assert_eq(<<"size_of!">> \o name \o <<"::", field>>,
                       <<"sizeof">> \o name \o <<"::", field>>),
       build_assert_eq(<<"align_of!">> \o name \o <<"::", field>>,
                       <<"alignof">> \o name \o <<"::", field>>),
       build_assert_eq(<<"offset_of!">> \o name \o <<",", field>>,
                       <<"offsetof">> \o name \o <<",", field>>) >>

RECURSIVE FieldLoop(_, _)
FieldLoop(name, fs) ==
    IF fs = <<>> THEN <<>>
    ELSE FieldAsserts(name, Head(fs)) \o FieldLoop(name, Tail(fs))

build_struct_test(m, struct_name) ==
    [test_name |-> <<"layout_test_">> \o struct_name,
     field_tests |->
        << build_assert_eq(<<"size_of!">> \o struct_name, <<"sizeof">> \o struct_name),
           build_assert_eq(<<"align_of!">> \o struct_name, <<"alignof">> \o struct_name) >>
        \o FieldLoop(struct_name, Get(m, struct_name))]

\* Mutant: only the first pattern of the blocklist is tried.
Blocklisted_FirstOnly(bl, struct_name) ==
    bl # <<>> /\ is_match(bl[1], struct_name)

\* The inner loop of build_tests: some pattern of the blocklist matches.
Blocklisted(bl, struct_name) ==
    \E i \in DOMAIN bl : is_match(bl[i], struct_name)

RECURSIVE StructLoop(_, _, _)
StructLoop(m, bl, i) ==
    IF i > Len(m) THEN <<>>
    ELSE (IF Blocklisted(bl, m[i].name) THEN <<>>
          ELSE <<build_struct_test(m, m[i].name)>>)
         \o StructLoop(m, bl, i + 1)

\* Mutant: the blocklist is not consulted when the tests are built.
build_tests_Unfiltered(m, bl) ==
    [preamble |-> build_preamble, tests |-> StructLoop(m, <<>>, 1)]

build_tests(m, bl) == [preamble |-> build_preamble, tests |-> StructLoop(m, bl, 1)]

\* RustFmt::format_tokens and TokenStream::to_string: two different texts of
\* the same tokens.
format_tokens(tokens) == [text |-> "rustfmt", tokens |-> tokens]
to_string(tokens) == [text |-> "to_string", tokens |-> tokens]

RECURSIVE IncludeLoop(_)
IncludeLoop(hs) ==
    IF hs = <<>> THEN <<>>
    ELSE << <<"    #include \"", Head(hs), "\"\n">> >> \o IncludeLoop(Tail(hs))

\* The writes of lines 106-110, in order.
IncludeBlock(hs) == << <<"cpp! {{\n">> >> \o IncludeLoop(hs) \o << <<"}}\n\n">> >>

(***************************************************************************)
(* generate_layout_tests, one action per fallible step.                     *)
(***************************************************************************)
\* File::create(output_path)?
generate_create(g, ok) ==
    /\ ~panicked
    /\ pc[g] = "idle"
    /\ IF ok
       THEN /\ file' = [file EXCEPT ![g] = EmptyFile]
            /\ handle' = [handle EXCEPT ![g] = TRUE]
            /\ pc' = [pc EXCEPT ![g] = "created"]
            /\ result' = [result EXCEPT ![g] = "running"]
       ELSE /\ result' = [result EXCEPT ![g] = "IoError"]
            /\ UNCHANGED <<file, handle, pc>>
    /\ UNCHANGED <<headers, fields, blocklist, written, unions, declared, late,
                   panicked, rustfmt>>
    /\ answer' = [answer EXCEPT ![g] = "unasked"]
    /\ UNCHANGED <<passed, romfs_vars>>

\* Mutant: the header set is drained while the include lines are written.
generate_write_includes_Drain(g, ok) ==
    /\ pc[g] = "created"
    /\ IF ok
       THEN /\ file' = [file EXCEPT ![g].lines = IncludeBlock(headers[g])]
            /\ headers' = [headers EXCEPT ![g] = <<>>]
            /\ pc' = [pc EXCEPT ![g] = "includes"]
            /\ UNCHANGED <<handle, result>>
       ELSE /\ file' = [file EXCEPT ![g].state = "partial"]
            /\ pc' = [pc EXCEPT ![g] = "idle"]
            /\ handle' = [handle EXCEPT ![g] = FALSE]
            /\ result' = [result EXCEPT ![g] = "IoError"]
            /\ UNCHANGED headers
    /\ UNCHANGED <<fields, blocklist, written, unions, declared, late,
                   panicked, rustfmt>>
    /\ answer' = [answer EXCEPT ![g] = "unasked"]
    /\ UNCHANGED <<passed, romfs_vars>>

\* Lines 106-110: write_all, writeln! per header, write_all, each with `?`.
\* When a write fails the file is left "partial": what it holds after the
\* recorded content is an unspecified prefix of the write that failed.
generate_write_includes(g, ok) ==
    /\ pc[g] = "created"
    /\ IF ok
       THEN /\ file' = [file EXCEPT ![g].lines = IncludeBlock(headers[g])]
            /\ pc' = [pc EXCEPT ![g] = "includes"]
            /\ UNCHANGED <<handle, result>>
       ELSE /\ file' = [file EXCEPT ![g].state = "partial"]
            /\ pc' = [pc EXCEPT ![g] = "idle"]
            /\ handle' = [handle EXCEPT ![g] = FALSE]
            /\ result' = [result EXCEPT ![g] = "IoError"]
    /\ UNCHANGED <<headers, fields, blocklist, written, unions, declared, late,
                   panicked, rustfmt>>
    /\ answer' = [answer EXCEPT ![g] = "unasked"]
    /\ UNCHANGED <<passed, romfs_vars>>

\* The text handed to the last write_all (lines 114-119).
BodyText(g) ==
    IF rustfmt THEN format_tokens(build_tests(fields[g], blocklist[g]))
    ELSE to_string(build_tests(fields[g], blocklist[g]))

\* Mutant: formatting is best-effort; when it fails the unformatted text is
\* written and the call returns Ok.
generate_write_body_BestEffort(g, fmt_ok, io_ok) ==
    /\ pc[g] = "includes"
    /\ pc' = [pc EXCEPT ![g] = "idle"]
    /\ handle' = [handle EXCEPT ![g] = FALSE]
    /\ IF ~io_ok
       THEN /\ result' = [result EXCEPT ![g] = "IoError"]
            /\ file' = [file EXCEPT ![g].state = "partial"]
            /\ UNCHANGED written
       ELSE /\ file' = [file EXCEPT ![g].body =
                           <<IF rustfmt /\ fmt_ok
                             THEN format_tokens(build_tests(fields[g], blocklist[g]))
                             ELSE to_string(build_tests(fields[g], blocklist[g]))>>]
            /\ written' = [written EXCEPT ![g] =
                              IF Len(@) = 2 THEN <<@[2], file'[g]>>
                              ELSE Append(@, file'[g])]
            /\ result' = [result EXCEPT ![g] = "Ok"]
    /\ UNCHANGED <<headers, fields, blocklist, unions, declared, late,
                   panicked, rustfmt>>
    /\ answer' = [answer EXCEPT ![g] = "unasked"]
    /\ UNCHANGED <<passed, romfs_vars>>

\* Lines 112-121: build_tests, the optional format_tokens(..)?, write_all(..)?.
\* Mutant: the early return of `format_tokens(..)?` keeps the file open.
generate_write_body_Leak(g, fmt_ok, io_ok) ==
    /\ pc[g] = "includes"
    /\ pc' = [pc EXCEPT ![g] = "idle"]
    /\ IF rustfmt /\ ~fmt_ok
       THEN /\ result' = [result EXCEPT ![g] = "FormatError"]
            /\ UNCHANGED <<file, written, handle>>
       ELSE IF ~io_ok
       THEN /\ result' = [result EXCEPT ![g] = "IoError"]
            /\ file' = [file EXCEPT ![g].state = "partial"]
            /\ handle' = [handle EXCEPT ![g] = FALSE]
            /\ UNCHANGED written
       ELSE /\ file' = [file EXCEPT ![g].body = <<BodyText(g)>>]
            /\ handle' = [handle EXCEPT ![g] = FALSE]
            /\ written' = [written EXCEPT ![g] =
                              IF Len(@) = 2 THEN <<@[2], file'[g]>>
                              ELSE Append(@, file'[g])]
            /\ result' = [result EXCEPT ![g] = "Ok"]
    /\ UNCHANGED <<headers, fields, blocklist, unions, declared, late,
                   panicked, rustfmt>>
    /\ answer' = [answer EXCEPT ![g] = "unasked"]
    /\ UNCHANGED <<passed, romfs_vars>>

generate_write_body(g, fmt_ok, io_ok) ==
    /\ pc[g] = "includes"
    /\ pc' = [pc EXCEPT ![g] = "idle"]
    /\ handle' = [handle EXCEPT ![g] = FALSE]
    /\ IF rustfmt /\ ~fmt_ok
       THEN /\ result' = [result EXCEPT ![g] = "FormatError"]
            /\ UNCHANGED <<file, written>>
       ELSE IF ~io_ok
       THEN /\ result' = [result EXCEPT ![g] = "IoError"]
            /\ file' = [file EXCEPT ![g].state = "partial"]
            /\ UNCHANGED written
       ELSE /\ file' = [file EXCEPT ![g].body = <<BodyText(g)>>]
            /\ written' = [written EXCEPT ![g] =
                              IF Len(@) = 2 THEN <<@[2], file'[g]>>
                              ELSE Append(@, file'[g])]
            /\ result' = [result EXCEPT ![g] = "Ok"]
    /\ UNCHANGED <<headers, fields, blocklist, unions, declared, late,
                   panicked, rustfmt>>
    /\ answer' = [answer EXCEPT ![g] = "unasked"]
    /\ UNCHANGED <<passed, romfs_vars>>

(***************************************************************************)
(* One generator, as in the build script.                                   *)
(***************************************************************************)
Next ==
    \/ \E h \in MainHeaders : header_file(1, h)
    \/ \E name \in TypeNames, kind \in TypeKind : add_derives(1, name, kind)
    \/ \E name \in TypeNames, t \in DeriveTrait :
          blocklisted_type_implements_trait(1, name, t)
    \/ \E name \in TypeNames, f \in FieldNames : field_visibility(1, name, f)
    \/ \E p \in Patterns : main_blocklist_type(1, p)
    \/ \E ok \in BOOLEAN : generate_create(1, ok)
    \/ \E ok \in BOOLEAN : generate_write_includes(1, ok)
    \/ \E fmt_ok \in BOOLEAN, io_ok \in BOOLEAN : generate_write_body(1, fmt_ok, io_ok)

Spec == Init /\ [][Next]_vars

(***************************************************************************)
(* Two generators fed the struct and field events of two parse passes, each *)
(* generating without an I/O or formatting failure.                         *)
(***************************************************************************)
NextPair ==
    \/ \E g \in Gens, name \in TypeNames : add_derives(g, name, "Struct")
    \/ \E g \in Gens, f \in FieldNames : field_visibility(g, Foo, f)
    \/ \E g \in Gens : generate_create(g, TRUE)
    \/ \E g \in Gens : generate_write_includes(g, TRUE)
    \/ \E g \in Gens : generate_write_body(g, TRUE, TRUE)

SpecPair == Init /\ [][NextPair]_vars

(***************************************************************************)
(* Two generators fed header events only, each generating without an I/O   *)
(* or formatting failure.                                                   *)
(***************************************************************************)
NextHeaders ==
    \/ \E g \in Gens, h \in HeaderPaths : header_file(g, h)
    \/ \E g \in Gens : generate_create(g, TRUE)
    \/ \E g \in Gens : generate_write_includes(g, TRUE)
    \/ \E g \in Gens : generate_write_body(g, TRUE, TRUE)

SpecHeaders == Init /\ [][NextHeaders]_vars

(***************************************************************************)
(* ctru-rs RomFS (src/ctru-rs/src/romfs.rs).  A RomFS value owns a          *)
(* ServiceReference on the counter ROMFS_ACTIVE.  ServiceReference lives in *)
(* crate::services: new locks the counter, runs `start` when the counter is *)
(* 0 (returning its error), refuses a second reference unless               *)
(* allow_multiple, and adds one; drop takes one off and runs `close` when   *)
(* the counter is back to 0.                                                *)
(***************************************************************************)
gen_vars == <<headers, fields, blocklist, file, handle, pc, result, panicked,
              rustfmt, written, unions, declared, late, answer, passed>>

\* RomFS::init passes `true` for allow_multiple.
RomFS_allow_multiple == TRUE

\* Mutant: the result code of romfsMountSelf is not checked.
RomFS_start_Unchecked(r) == "Ok"

\* The start closure of RomFS::init: romfsMountSelf, then `if r < 0`.
RomFS_start(r) == IF r < 0 THEN "Err" ELSE "Ok"

\* ServiceReference::new(&ROMFS_ACTIVE, allow_multiple, start, close), where
\* r is the code romfsMountSelf returns if it is called.
ServiceReference_new(h, allow_multiple, r) ==
    IF romfs_active = 0
    THEN /\ romfs_code' = r
         /\ IF RomFS_start(r) = "Err"
            THEN /\ romfs_ret' = "Err"
                 /\ UNCHANGED <<romfs_active, romfs_alive, romfs_mounted>>
            ELSE /\ romfs_ret' = "Ok"
                 /\ romfs_mounted' = TRUE
                 /\ romfs_active' = romfs_active + 1
                 /\ romfs_alive' = romfs_alive \cup {h}
    ELSE /\ romfs_code' = 0
         /\ IF allow_multiple
            THEN /\ romfs_ret' = "Ok"
                 /\ romfs_active' = romfs_active + 1
                 /\ romfs_alive' = romfs_alive \cup {h}
                 /\ UNCHANGED romfs_mounted
            ELSE /\ romfs_ret' = "Err"
                 /\ UNCHANGED <<romfs_active, romfs_alive, romfs_mounted>>

\* RomFS::init, making the RomFS value h.
RomFS_init(h, r) ==
    /\ h \notin romfs_alive
    /\ ServiceReference_new(h, RomFS_allow_multiple, r)
    /\ UNCHANGED gen_vars

\* drop(romfs): Drop for ServiceReference, with the close closure of
\* RomFS::init (romfsUnmount).
RomFS_drop(h) ==
    /\ h \in romfs_alive
    /\ romfs_alive' = romfs_alive \ {h}
    /\ romfs_active' = romfs_active - 1
    /\ romfs_mounted' = IF romfs_active' = 0 THEN FALSE ELSE romfs_mounted
    /\ romfs_ret' = "()"
    /\ romfs_code' = 0
    /\ UNCHANGED gen_vars

NextRomFS ==
    \/ \E h \in HandleIds, r \in MountCodes : RomFS_init(h, r)
    \/ \E h \in HandleIds : RomFS_drop(h)

SpecRomFS == Init /\ [][NextRomFS]_vars

(***************************************************************************)
(* Properties                                                               *)
(***************************************************************************)
\* generate_layout_tests has returned Ok(()) and no call is running.
Generated(g) == pc[g] = "idle" /\ result[g] = "Ok"

\* The verification units of the artifact written by a call that returned Ok.
Tests(g) == file[g].body[1].tokens.tests

UnitsOf(g, name) ==
    {i \in DOMAIN Tests(g) : Tests(g)[i].test_name = <<"layout_test_">> \o name}

UnitCount(g, name) == Cardinality(UnitsOf(g, name))

FullyMatched(g, name) ==
    \E i \in DOMAIN blocklist[g] : full_match(blocklist[g][i], name)

FieldSet(m, name) == Elems(Get(m, name))

\* C1: after a successful generation, every non-union type name that came
\* with a struct/enum type event or a field event, and whose full name no
\* registered exclusion pattern matches, has exactly one verification unit.
C1_ExactlyOneUnit ==
    Generated(1) =>
        \A name \in declared[1] \ unions[1] :
            ~FullyMatched(1, name) => UnitCount(1, name) = 1

\* C2: a type name that received a union event has no verification unit,
\* whatever struct/enum and field events came for the same name.
C2_UnionNeverGetsUnit ==
    Generated(1) => \A name \in unions[1] : UnitCount(1, name) = 0

C2_Witness ==
    /\ Generated(1)
    /\ \E name \in unions[1] :
          /\ name \in declared[1]
          /\ FieldSet(fields[1], name) # {}
          /\ UnitCount(1, name) = 0

\* C3: a type that was already recorded when the caller registered a pattern
\* matching its name has no verification unit: exclusion is decided against
\* the pattern list as it stands when generation starts.
C3_LateExclusionSuppresses ==
    Generated(1) => \A name \in late[1] : UnitCount(1, name) = 0

C3_Witness ==
    /\ Generated(1)
    /\ Foo \in late[1]
    /\ FieldSet(fields[1], Foo) # {}
    /\ blocklist[1] = <<RegexNew(PatFoDotStar).prog>>
    /\ UnitCount(1, Foo) = 0

\* C7: after a successful generation a recorded type has no verification unit
\* if and only if some registered pattern matches its full name; a pattern
\* matching only a proper substring of the name does not exclude it.
C7_ExcludedIffFullMatch ==
    Generated(1) =>
        \A name \in Keys(fields[1]) :
            (UnitCount(1, name) = 0) <=> FullyMatched(1, name)

\* What a registry holds, whatever the order its collections iterate in.
Content(g) ==
    [headers |-> Elems(headers[g]),
     fields |-> {<<n, FieldSet(fields[g], n)>> : n \in Keys(fields[g])},
     blocklist |-> blocklist[g]]

\* C4: two generators whose registries hold the same content write the same
\* artifact, whatever the order their events arrived in.
C4_OrderIndependentOutput ==
    (Generated(1) /\ Generated(2) /\ Content(1) = Content(2))
        => file[1] = file[2]

\* C5: two calls of generate_layout_tests on the same registry that both
\* return Ok write the same artifact, and no step of a call changes the
\* header set, the field registry or the exclusion list.
C5_Idempotent ==
    /\ [](Len(written[1]) = 2 => written[1][1] = written[1][2])
    /\ [][(pc[1] # "idle" \/ pc'[1] # "idle")
            => (headers' = headers /\ fields' = fields /\ blocklist' = blocklist)]_vars

C5_Witness ==
    /\ Generated(1)
    /\ Len(written[1]) = 2
    /\ written[1][2] = file[1]
    /\ headers[1] # <<>>
    /\ Tests(1) # <<>>

\* The type a verification unit is about.
UnitType(u) == SubSeq(u.test_name, 2, Len(u.test_name))

Count(u, rust_lhs) ==
    Cardinality({k \in DOMAIN u.field_tests : u.field_tests[k].rust = rust_lhs})

\* C6: the unit of a retained type with n fields in the registry holds exactly
\* 2 + 3n assertions: one size and one alignment of the whole type, and one
\* size, one alignment and one offset per field; a retained type without
\* fields still has its unit, with the two whole-type assertions.
C6_AssertionCount ==
    Generated(1) =>
        /\ \A i \in DOMAIN Tests(1) :
              LET u == Tests(1)[i]
                  name == UnitType(u)
                  fs == FieldSet(fields[1], name)
              IN  /\ Len(u.field_tests) = 2 + 3 * Cardinality(fs)
                  /\ Count(u, <<"size_of!">> \o name) = 1
                  /\ Count(u, <<"align_of!">> \o name) = 1
                  /\ \A f \in fs :
                        /\ Count(u, <<"size_of!">> \o name \o <<"::", f>>) = 1
                        /\ Count(u, <<"align_of!">> \o name \o <<"::", f>>) = 1
                        /\ Count(u, <<"offset_of!">> \o name \o <<",", f>>) = 1
        /\ \A name \in Keys(fields[1]) :
              (FieldSet(fields[1], name) = {} /\ ~Blocklisted(blocklist[1], name))
                  => UnitCount(1, name) = 1

C6_Witness ==
    /\ Generated(1)
    /\ FieldSet(fields[1], Foo) = FieldNames
    /\ FooBar \in Keys(fields[1])
    /\ FieldSet(fields[1], FooBar) = {}
    /\ UnitCount(1, Foo) = 1
    /\ UnitCount(1, FooBar) = 1
    /\ \E i \in UnitsOf(1, Foo) : Len(Tests(1)[i].field_tests) = 8
    /\ \E i \in UnitsOf(1, FooBar) : Len(Tests(1)[i].field_tests) = 2

\* C8: a struct/enum type event leaves the field set of every type already
\* in the registry as it was.
C8_TypeSeenKeepsFields ==
    [][(\E name \in TypeNames, kind \in {"Struct", "Enum"} : add_derives(1, name, kind))
        => \A n \in Keys(fields[1]) :
              FieldSet(fields'[1], n) = FieldSet(fields[1], n)]_vars

\* A compiled expression of the modelled syntax holds no group character.
Compiled(prog) == \A k \in DOMAIN prog : prog[k].ch \notin {"(", ")"}

\* C9: the exclusion list only ever holds compiled patterns, and the step
\* that panics on an invalid pattern, like every step after it, leaves the
\* output file as it was and starts no generation.
C9_InvalidPatternIsFatal ==
    /\ [](\A i \in DOMAIN blocklist[1] : Compiled(blocklist[1][i]))
    /\ [][(panicked \/ panicked')
            => (file' = file /\ blocklist' = blocklist /\ pc'[1] = "idle")]_vars

C9_Witness ==
    /\ panicked
    /\ file[1] = StaleFile
    /\ fields[1] # <<>>

\* C10: with the rustfmt feature, a call whose formatting failed returned
\* FormatError and wrote no body, every body in the file is the formatted
\* text, and the body of a call that returned Ok is the formatted text of
\* build_tests.
C10_FormattingMandatory ==
    rustfmt =>
        /\ \A i \in DOMAIN file[1].body : file[1].body[i].text = "rustfmt"
        /\ result[1] = "FormatError" => file[1].body = <<>>
        /\ Generated(1) =>
              file[1].body = <<format_tokens(build_tests(fields[1], blocklist[1]))>>

C10_Witness ==
    /\ rustfmt
    /\ pc[1] = "idle"
    /\ result[1] = "FormatError"
    /\ file[1].state = "created"
    /\ file[1].lines = IncludeBlock(headers[1])
    /\ file[1].body = <<>>

GetsUnit(m, bl, T) ==
    \E i \in DOMAIN build_tests(m, bl).tests :
        build_tests(m, bl).tests[i].test_name = <<"layout_test_">> \o T

\* C12: a union event for U leaves the field registry as it was and excludes
\* the name U only: for every other name T, whether T gets a verification
\* unit is the same before and after the event.
C12_UnionExcludesOnlyItself ==
    [][\A U \in TypeNames :
          add_derives(1, U, "Union")
              => /\ fields' = fields
                 /\ \A T \in TypeNames \ {U} :
                        GetsUnit(fields'[1], blocklist'[1], T)
                            = GetsUnit(fields[1], blocklist[1], T)]_vars

\* C13: every capability query registers the name as excluded, answers None
\* and leaves the header set and the field registry unchanged (a query step
\* is a parse-time step that returns an answer); the exclusion list only
\* grows, and an excluded name has no verification unit in a generated
\* artifact.
C13_QueryExcludesAndAnswersNone ==
    /\ [][(Parsing(1) /\ answer'[1] # "unasked")
            => \A name \in TypeNames, t \in DeriveTrait :
                  blocklisted_type_implements_trait(1, name, t)
                      => /\ Blocklisted(blocklist'[1], name)
                         /\ answer'[1] = "None"
                         /\ headers' = headers
                         /\ fields' = fields]_vars
    /\ [][/\ Len(blocklist'[1]) >= Len(blocklist[1])
          /\ SubSeq(blocklist'[1], 1, Len(blocklist[1])) = blocklist[1]]_vars
    /\ [](answer[1] \in {"unasked", "None"})
    /\ [](Generated(1)
            => \A name \in TypeNames :
                  Blocklisted(blocklist[1], name) => UnitCount(1, name) = 0)

C13_Witness ==
    /\ Generated(1)
    /\ unions[1] = {}
    /\ blocklist[1] = <<RegexNew(FooBar).prog>>
    /\ FieldSet(fields[1], FooBar) # {}
    /\ UnitCount(1, FooBar) = 0
    /\ UnitCount(1, Foo) = 1

\* The include lines of a generated artifact, between the opening and the
\* closing line of the block.
IncludeLines(g) == SubSeq(file[g].lines, 2, Len(file[g].lines) - 1)

\* C14: the include block holds exactly one line for every distinct path
\* passed to header_file, and two generators that were passed the same paths
\* write the same block whatever the order of the events.
C14_IncludeBlockDeterministic ==
    /\ \A g \in Gens :
          Generated(g)
              => /\ Len(IncludeLines(g)) = Cardinality(passed[g])
                 /\ {IncludeLines(g)[i] : i \in DOMAIN IncludeLines(g)}
                        = {<<"    #include \"", h, "\"\n">> : h \in passed[g]}
    /\ (Generated(1) /\ Generated(2) /\ passed[1] = passed[2])
          => file[1].lines = file[2].lines

\* C15: the output file is open between File::create and the return of
\* generate_layout_tests and closed whenever no call is running, whatever
\* the call returned; a call that fails to create the file returns IoError
\* and leaves the file as it was.
C15_HandleReleased ==
    /\ [](pc[1] = "idle" => ~handle[1])
    /\ [](pc[1] \in {"created", "includes"} => handle[1])
    /\ [][(pc[1] = "idle" /\ pc'[1] = "idle" /\ result'[1] = "IoError")
            => (file' = file /\ ~handle'[1])]_vars

C15_Witness ==
    /\ pc[1] = "idle"
    /\ result[1] = "FormatError"
    /\ file[1].lines # <<>>
    /\ ~handle[1]

====
